---- MODULE Spec2Model ----
(***************************************************************************)
(* A model of js-powerkit's object utilities (src/src/objectUtils.js), of   *)
(* its array utilities chunk, rotate and range (src/unnamed/part_000) and  *)
(* of truncate (src/src/stringUtils.js).                                   *)
(*                                                                         *)
(* JavaScript values are modelled with reference semantics: a primitive is *)
(* a small record, an object (plain object, array or Date) is a node of a  *)
(* heap and a value that denotes it is a reference to its address.  Every  *)
(* function of the library is an operator that takes the heap and returns  *)
(* the heap it leaves behind together with its result, so that aliasing    *)
(* and in-place mutation are visible.  Property keys and paths are         *)
(* sequences of one-character strings ("a.b" is <<"a", ".", "b">>).        *)
(***************************************************************************)
EXTENDS Integers, Sequences, FiniteSets, TLC

VARIABLES
  heap,   \* the objects that exist: a sequence of nodes
  args,   \* the caller's argument values
  call,   \* the library function the caller has called ("init" before the call)
  res,    \* what the call returned
  wrote,  \* the root the caller has then written through, and the path
  pre,    \* the heap as it was before the last step
  literals, \* the argument expressions as the caller wrote them
  loop    \* the loop variable i of a range call in progress

vars == <<heap, args, call, res, wrote, pre, literals, loop>>

(***************************************************************************)
(* Bounds of the model.                                                    *)
(***************************************************************************)
\* numbers and timestamps range over 1..MaxNum
MaxNum == 2
\* the longest array given to chunk and rotate
MaxLen == 3
\* the largest number of positions, or chunk size, in either direction
MaxPos == 5
\* the longest string given to truncate
MaxStr == 3
\* the largest start and end given to range
MaxSpan == 3

(***************************************************************************)
(* Values.                                                                 *)
(***************************************************************************)
Num(n) == [k |-> "num", n |-> n]
NaN == [k |-> "nan"]
Null == [k |-> "null"]
Undef == [k |-> "undef"]
Str(s) == [k |-> "str", s |-> s]
Bool(b) == [k |-> "bool", b |-> b]
Ref(a) == [k |-> "ref", a |-> a]
\* what a call that throws leaves in place of a result
Thrown(name) == [k |-> "throw", name |-> name]
\* Symbol(name)
Symbol(name) == [k |-> "sym", name |-> name]

\* typeof v
TypeOf(v) ==
  CASE v.k = "num" -> "number"
    [] v.k = "nan" -> "number"
    [] v.k = "null" -> "object"
    [] v.k = "undef" -> "undefined"
    [] v.k = "str" -> "string"
    [] v.k = "bool" -> "boolean"
    [] v.k = "sym" -> "symbol"
    [] v.k = "ref" -> "object"

\* ToBoolean(v): the truthiness the code's `x && ...`, `!x` and `x || y` test
Truthy(v) ==
  CASE v.k = "num" -> v.n # 0
    [] v.k = "nan" -> FALSE
    [] v.k = "null" -> FALSE
    [] v.k = "undef" -> FALSE
    [] v.k = "str" -> v.s # <<>>
    [] v.k = "bool" -> v.b
    [] v.k = "sym" -> TRUE
    [] v.k = "ref" -> TRUE

\* a === b
StrictEq(a, b) == a.k # "nan" /\ a = b

(***************************************************************************)
(* The heap: a sequence of nodes, a node's address is its index.  Every    *)
(* node carries its own enumerable properties, in the order Object.keys    *)
(* lists them: integer keys ascending, then the others by insertion.  An   *)
(* array's elements are its integer-keyed properties.                      *)
(***************************************************************************)
ObjNode == [t |-> "obj", keys |-> <<>>, vals |-> <<>>, time |-> 0]
ArrNode == [t |-> "arr", keys |-> <<>>, vals |-> <<>>, time |-> 0]
DateNode(ms) == [t |-> "date", keys |-> <<>>, vals |-> <<>>, time |-> ms]

Digits == <<"0", "1", "2", "3", "4", "5", "6", "7", "8", "9">>

\* String(i) for an array index
IdxKey(i) == <<Digits[i + 1]>>

IsIndexKey(key) == Len(key) = 1 /\ \E i \in 1..Len(Digits) : Digits[i] = key[1]

IndexOf(key) == (CHOOSE i \in 1..Len(Digits) : Digits[i] = key[1]) - 1

\* new X: the heap with the node appended, and the reference to it
Alloc(h, node) == [h |-> Append(h, node), r |-> Ref(Len(h) + 1)]

KeyPos(node, key) ==
  IF \E i \in 1..Len(node.keys) : node.keys[i] = key
  THEN CHOOSE i \in 1..Len(node.keys) : node.keys[i] = key
  ELSE 0

\* v[key], for v other than null and undefined: an own property of an object, a
\* character or the length of a string (the model has no prototype chain)
GetProp(h, v, key) ==
  IF v.k = "ref" /\ KeyPos(h[v.a], key) # 0
  THEN h[v.a].vals[KeyPos(h[v.a], key)]
  ELSE IF v.k = "str" /\ IsIndexKey(key) /\ IndexOf(key) < Len(v.s)
  THEN Str(<<v.s[IndexOf(key) + 1]>>)
  ELSE IF v.k = "str" /\ key = <<"l", "e", "n", "g", "t", "h">>
  THEN Num(Len(v.s))
  ELSE Undef

\* Object.keys(v)
ObjectKeys(h, v) == IF v.k = "ref" THEN h[v.a].keys ELSE <<>>

\* arr.length of a dense array
ArrLength(node) == Cardinality({i \in 1..Len(node.keys) : IsIndexKey(node.keys[i])})

\* where a new key goes in the enumeration order
InsertPos(node, key) ==
  IF IsIndexKey(key)
  THEN 1 + Cardinality({i \in 1..Len(node.keys) :
              IsIndexKey(node.keys[i]) /\ IndexOf(node.keys[i]) < IndexOf(key)})
  ELSE Len(node.keys) + 1

InsertAt(s, i, e) == SubSeq(s, 1, i - 1) \o <<e>> \o SubSeq(s, i, Len(s))

\* v[key] = val, for v a reference
PutProp(h, v, key, val) ==
  LET node == h[v.a]
      p == KeyPos(node, key)
  IN IF p # 0
     THEN [h EXCEPT ![v.a].vals[p] = val]
     ELSE [h EXCEPT ![v.a].keys = InsertAt(node.keys, InsertPos(node, key), key),
                    ![v.a].vals = InsertAt(node.vals, InsertPos(node, key), val)]

RECURSIVE ObjectAssign(_, _, _, _, _)

\* Object.assign(target, source), from the source's i-th key on
ObjectAssign(h, target, source, keys, i) ==
  IF i > Len(keys) THEN h
  ELSE ObjectAssign(PutProp(h, target, keys[i], GetProp(h, source, keys[i])),
                    target, source, keys, i + 1)

(***************************************************************************)
(* deepClone                                                               *)
(***************************************************************************)
RECURSIVE deepClone(_, _)
RECURSIVE CloneItems(_, _, _, _)
RECURSIVE CloneKeys(_, _, _, _, _)

\* obj.map(item => deepClone(item)): fills the new array `out` from index i on
CloneItems(h, obj, out, i) ==
  IF i >= ArrLength(h[obj.a]) THEN h
  ELSE LET c == deepClone(h, GetProp(h, obj, IdxKey(i)))
       IN CloneItems(PutProp(c.h, out, IdxKey(i), c.r), obj, out, i + 1)

\* Object.keys(obj).forEach(key => cloned[key] = deepClone(obj[key]))
CloneKeys(h, obj, keys, cloned, i) ==
  IF i > Len(keys) THEN h
  ELSE LET c == deepClone(h, GetProp(h, obj, keys[i]))
       IN CloneKeys(PutProp(c.h, cloned, keys[i], c.r), obj, keys, cloned, i + 1)

\* deepClone as it would be with a one-level copy ({...obj}, obj.slice()) for the
\* recursive one
deepCloneShallow(h, obj) ==
  IF obj = Null \/ TypeOf(obj) # "object" THEN [h |-> h, r |-> obj]
  ELSE LET c == Alloc(h, [h[obj.a] EXCEPT !.keys = <<>>, !.vals = <<>>])
       IN [h |-> ObjectAssign(c.h, c.r, obj, ObjectKeys(h, obj), 1), r |-> c.r]

deepClone(h, obj) ==
  IF obj = Null \/ TypeOf(obj) # "object" THEN [h |-> h, r |-> obj]
  ELSE IF h[obj.a].t = "date" THEN Alloc(h, DateNode(h[obj.a].time))
  ELSE IF h[obj.a].t = "arr"
    THEN LET out == Alloc(h, ArrNode)
         IN [h |-> CloneItems(out.h, obj, out.r, 0), r |-> out.r]
  ELSE LET cloned == Alloc(h, ObjNode)
       IN [h |-> CloneKeys(cloned.h, obj, ObjectKeys(h, obj), cloned.r, 1),
           r |-> cloned.r]

(***************************************************************************)
(* isEqual                                                                 *)
(***************************************************************************)
\* keys2.includes(key)
Includes(keys, key) == \E i \in 1..Len(keys) : keys[i] = key

RECURSIVE isEqual(_, _, _)
isEqual(h, obj1, obj2) ==
  IF StrictEq(obj1, obj2) THEN TRUE
  ELSE IF obj1.k \in {"null", "undef"} \/ obj2.k \in {"null", "undef"} THEN FALSE
  ELSE IF TypeOf(obj1) # "object" \/ TypeOf(obj2) # "object" THEN FALSE
  ELSE LET keys1 == ObjectKeys(h, obj1)
           keys2 == ObjectKeys(h, obj2)
       IN IF Len(keys1) # Len(keys2) THEN FALSE
          ELSE \A i \in 1..Len(keys1) :
                 /\ Includes(keys2, keys1[i])
                 /\ isEqual(h, GetProp(h, obj1, keys1[i]), GetProp(h, obj2, keys1[i]))

(***************************************************************************)
(* deepMerge                                                               *)
(***************************************************************************)
RECURSIVE deepMerge(_, _)
RECURSIVE MergeKeys(_, _, _, _, _)
RECURSIVE MergeArgs(_, _, _, _)

\* obj[key] && typeof obj[key] === 'object' && !Array.isArray(obj[key])
MergeRecurses(h, v) == Truthy(v) /\ TypeOf(v) = "object" /\ h[v.a].t # "arr"

\* Object.keys(obj).forEach(key => ...): the body for keys[i], then the rest
MergeKeys(h, merged, obj, keys, i) ==
  IF i > Len(keys) THEN h
  ELSE LET v == GetProp(h, obj, keys[i])
       IN IF MergeRecurses(h, v)
          THEN LET cur == GetProp(h, merged, keys[i])
                   base == IF Truthy(cur) THEN [h |-> h, r |-> cur]
                                          ELSE Alloc(h, ObjNode)
                   m == deepMerge(base.h, <<base.r, v>>)
               IN MergeKeys(PutProp(m.h, merged, keys[i], m.r), merged, obj, keys, i + 1)
          ELSE MergeKeys(PutProp(h, merged, keys[i], v), merged, obj, keys, i + 1)

\* objects.reduce((merged, obj) => ..., {}) from objects[j] on
MergeArgs(h, merged, objects, j) ==
  IF j > Len(objects) THEN h
  ELSE LET obj == objects[j]
       IN IF Truthy(obj) /\ TypeOf(obj) = "object"
          THEN MergeArgs(MergeKeys(h, merged, obj, ObjectKeys(h, obj), 1),
                         merged, objects, j + 1)
          ELSE MergeArgs(h, merged, objects, j + 1)

\* deepMerge as it would be with a reduce that has no initial value: the first
\* argument is the accumulator
deepMergeIntoFirst(h, objects) ==
  IF Len(objects) > 0 /\ objects[1].k = "ref"
  THEN [h |-> MergeArgs(h, objects[1], objects, 2), r |-> objects[1]]
  ELSE LET acc == Alloc(h, ObjNode)
       IN [h |-> MergeArgs(acc.h, acc.r, objects, 1), r |-> acc.r]

deepMerge(h, objects) ==
  LET acc == Alloc(h, ObjNode)
  IN [h |-> MergeArgs(acc.h, acc.r, objects, 1), r |-> acc.r]

(***************************************************************************)
(* flattenObject                                                           *)
(***************************************************************************)
RECURSIVE flattenObject(_, _, _)
RECURSIVE FlattenKeys(_, _, _, _, _, _)

\* prefix ? `${prefix}.${key}` : key
NewKey(prefix, key) == IF prefix # <<>> THEN prefix \o <<".">> \o key ELSE key

\* typeof v === 'object' && v !== null && !Array.isArray(v)
FlattenRecurses(h, v) == TypeOf(v) = "object" /\ v # Null /\ h[v.a].t # "arr"

\* Object.keys(obj).reduce((acc, key) => ..., {}) from keys[i] on
FlattenKeys(h, acc, obj, prefix, keys, i) ==
  IF i > Len(keys) THEN h
  ELSE LET v == GetProp(h, obj, keys[i])
           newKey == NewKey(prefix, keys[i])
       IN IF FlattenRecurses(h, v)
          THEN LET sub == flattenObject(h, v, newKey)
               IN FlattenKeys(ObjectAssign(sub.h, acc, sub.r, ObjectKeys(sub.h, sub.r), 1),
                              acc, obj, prefix, keys, i + 1)
          ELSE FlattenKeys(PutProp(h, acc, newKey, v), acc, obj, prefix, keys, i + 1)

flattenObject(h, obj, prefix) ==
  IF ~Truthy(obj) \/ TypeOf(obj) # "object" THEN Alloc(h, ObjNode)
  ELSE LET acc == Alloc(h, ObjNode)
       IN [h |-> FlattenKeys(acc.h, acc.r, obj, prefix, ObjectKeys(h, obj), 1),
           r |-> acc.r]

(***************************************************************************)
(* Literals: the values a caller writes down, and their construction.      *)
(***************************************************************************)
ObjLit(keys, vals) == [k |-> "lit", t |-> "obj", keys |-> keys, vals |-> vals, time |-> 0]
ArrLit(vals) ==
  [k |-> "lit", t |-> "arr", keys |-> [i \in 1..Len(vals) |-> IdxKey(i - 1)],
   vals |-> vals, time |-> 0]
DateLit(ms) == [k |-> "lit", t |-> "date", keys |-> <<>>, vals |-> <<>>, time |-> ms]

RECURSIVE Build(_, _)
RECURSIVE BuildProps(_, _, _, _)
RECURSIVE BuildAll(_, _, _)

BuildProps(h, ref, lit, i) ==
  IF i > Len(lit.keys) THEN h
  ELSE LET c == Build(h, lit.vals[i])
       IN BuildProps(PutProp(c.h, ref, lit.keys[i], c.r), ref, lit, i + 1)

\* evaluates a literal: a primitive is itself, {...}, [...] and new Date(ms) allocate
Build(h, lit) ==
  IF lit.k # "lit" THEN [h |-> h, r |-> lit]
  ELSE LET n == Alloc(h, [t |-> lit.t, keys |-> <<>>, vals |-> <<>>, time |-> lit.time])
       IN [h |-> BuildProps(n.h, n.r, lit, 1), r |-> n.r]

\* evaluates the literals of an argument list, left to right
BuildAll(h, lits, done) ==
  IF Len(done) = Len(lits) THEN [h |-> h, r |-> done]
  ELSE LET c == Build(h, lits[Len(done) + 1])
       IN BuildAll(c.h, lits, Append(done, c.r))

(***************************************************************************)
(* setNestedValue                                                          *)
(***************************************************************************)
RECURSIVE SplitFrom(_, _, _, _)
SplitFrom(s, i, cur, out) ==
  IF i > Len(s) THEN Append(out, cur)
  ELSE IF s[i] = "." THEN SplitFrom(s, i + 1, <<>>, Append(out, cur))
  ELSE SplitFrom(s, i + 1, Append(cur, s[i]), out)

\* path.split('.')
Split(path) == SplitFrom(path, 1, <<>>, <<>>)

\* the for loop over the non-terminal keys, then current[lastKey] = value
RECURSIVE SetWalk(_, _, _, _, _, _)
SetWalk(h, current, keys, i, lastKey, value) ==
  IF i > Len(keys) THEN PutProp(h, current, lastKey, value)
  ELSE LET cur == GetProp(h, current, keys[i])
       IN IF ~Truthy(cur) \/ TypeOf(cur) # "object"
          THEN LET n == Alloc(h, ObjNode)
               IN SetWalk(PutProp(n.h, current, keys[i], n.r), n.r, keys, i + 1,
                          lastKey, value)
          ELSE SetWalk(h, cur, keys, i + 1, lastKey, value)

\* a walk that puts a fresh object at every non-terminal key, whatever is there
RECURSIVE SetWalkFresh(_, _, _, _, _, _)
SetWalkFresh(h, current, keys, i, lastKey, value) ==
  IF i > Len(keys) THEN PutProp(h, current, lastKey, value)
  ELSE LET n == Alloc(h, ObjNode)
       IN SetWalkFresh(PutProp(n.h, current, keys[i], n.r), n.r, keys, i + 1, lastKey, value)

\* a setNestedValue that never descends into what is already there
setNestedValueFresh(h, obj, path, value) ==
  IF ~Truthy(obj) \/ TypeOf(path) # "string" THEN [h |-> h, r |-> obj]
  ELSE IF obj.k # "ref" THEN [h |-> h, r |-> Thrown("TypeError")]
  ELSE LET keys == Split(path.s)
       IN [h |-> SetWalkFresh(h, obj, SubSeq(keys, 1, Len(keys) - 1), 1, keys[Len(keys)],
                              value),
           r |-> obj]

\* a setNestedValue that writes into a copy of obj and returns the copy
setNestedValueOnCopy(h, obj, path, value) ==
  IF ~Truthy(obj) \/ TypeOf(path) # "string" \/ obj.k # "ref" THEN [h |-> h, r |-> obj]
  ELSE LET c == deepClone(h, obj)
           keys == Split(path.s)
       IN [h |-> SetWalk(c.h, c.r, SubSeq(keys, 1, Len(keys) - 1), 1, keys[Len(keys)], value),
           r |-> c.r]

\* setNestedValue(obj, path, value); the module is strict code, where an assignment
\* to a property of a primitive throws
setNestedValue(h, obj, path, value) ==
  IF ~Truthy(obj) \/ TypeOf(path) # "string" THEN [h |-> h, r |-> obj]
  ELSE IF obj.k # "ref" THEN [h |-> h, r |-> Thrown("TypeError")]
  ELSE LET keys == Split(path.s)
       IN [h |-> SetWalk(h, obj, SubSeq(keys, 1, Len(keys) - 1), 1, keys[Len(keys)], value),
           r |-> obj]

(***************************************************************************)
(* getNestedValue                                                          *)
(***************************************************************************)
\* the for loop, from keys[i] on
RECURSIVE GetWalk(_, _, _, _, _)
GetWalk(h, result, keys, i, defaultValue) ==
  IF i > Len(keys) THEN result
  ELSE LET next == IF Truthy(result) /\ Truthy(GetProp(h, result, keys[i]))
                   THEN GetProp(h, result, keys[i])
                   ELSE defaultValue
       IN IF next = Undef THEN defaultValue
          ELSE GetWalk(h, next, keys, i + 1, defaultValue)

getNestedValue(h, obj, path, defaultValue) ==
  IF ~Truthy(obj) \/ TypeOf(path) # "string" THEN defaultValue
  ELSE GetWalk(h, obj, Split(path.s), 1, defaultValue)

(***************************************************************************)
(* has and hasPath                                                         *)
(***************************************************************************)
\* has(obj, prop): `prop in obj`, for a property name that no prototype defines
has(h, obj, prop) ==
  IF ~Truthy(obj) \/ TypeOf(obj) # "object" THEN Thrown("TypeError")
  ELSE Bool(KeyPos(h[obj.a], prop.s) # 0)

hasPath(h, obj, path) ==
  IF ~Truthy(obj) \/ TypeOf(path) # "string" THEN Bool(FALSE)
  ELSE LET notFound == Symbol(<<"not-found">>)
       IN Bool(~StrictEq(getNestedValue(h, obj, path, notFound), notFound))

(***************************************************************************)
(* getAllKeys                                                              *)
(***************************************************************************)
\* keys.concat(item): a new array of the elements of keys, then those of item when
\* item is an array, else item itself
RECURSIVE ConcatFrom(_, _, _, _)
ConcatFrom(h, out, source, i) ==
  IF i >= ArrLength(h[source.a]) THEN h
  ELSE ConcatFrom(PutProp(h, out, IdxKey(ArrLength(h[out.a])), GetProp(h, source, IdxKey(i))),
                  out, source, i + 1)

Concat(h, keys, item) ==
  LET out == Alloc(h, ArrNode)
      first == ConcatFrom(out.h, out.r, keys, 0)
  IN [h |-> IF item.k = "ref" /\ h[item.a].t = "arr"
            THEN ConcatFrom(first, out.r, item, 0)
            ELSE PutProp(first, out.r, IdxKey(ArrLength(first[out.r.a])), item),
      r |-> out.r]

RECURSIVE getAllKeys(_, _, _)
RECURSIVE AllKeysFrom(_, _, _, _, _, _)

\* Object.keys(obj).reduce((keys, key) => ..., []) from names[i] on
AllKeysFrom(h, keys, obj, prefix, names, i) ==
  IF i > Len(names) THEN [h |-> h, r |-> keys]
  ELSE LET v == GetProp(h, obj, names[i])
           newKey == NewKey(prefix, names[i])
       IN IF FlattenRecurses(h, v)
          THEN LET sub == getAllKeys(h, v, newKey)
                   c == Concat(sub.h, keys, sub.r)
               IN AllKeysFrom(c.h, c.r, obj, prefix, names, i + 1)
          ELSE LET c == Concat(h, keys, Str(newKey))
               IN AllKeysFrom(c.h, c.r, obj, prefix, names, i + 1)

getAllKeys(h, obj, prefix) ==
  IF ~Truthy(obj) \/ TypeOf(obj) # "object" THEN Alloc(h, ArrNode)
  ELSE LET keys == Alloc(h, ArrNode)
       IN AllKeysFrom(keys.h, keys.r, obj, prefix, ObjectKeys(h, obj), 1)

(***************************************************************************)
(* unflattenObject                                                         *)
(***************************************************************************)
\* for (const key in obj) setNestedValue(result, key, obj[key]), from keys[i] on
RECURSIVE UnflattenFrom(_, _, _, _, _)
UnflattenFrom(h, result, obj, keys, i) ==
  IF i > Len(keys) THEN h
  ELSE UnflattenFrom(setNestedValue(h, result, Str(keys[i]), GetProp(h, obj, keys[i])).h,
                     result, obj, keys, i + 1)

unflattenObject(h, obj) ==
  IF ~Truthy(obj) \/ TypeOf(obj) # "object" THEN Alloc(h, ObjNode)
  ELSE LET result == Alloc(h, ObjNode)
       IN [h |-> UnflattenFrom(result.h, result.r, obj, ObjectKeys(h, obj), 1),
           r |-> result.r]

(***************************************************************************)
(* Array utilities: chunk and rotate                                       *)
(***************************************************************************)
IsArray(h, v) == v.k = "ref" /\ h[v.a].t = "arr"

\* arr.push(v)
Push(h, arr, v) == PutProp(h, arr, IdxKey(ArrLength(h[arr.a])), v)

\* a relative index of slice: negative counts from the end, then clamped to 0..len
Relative(x, len) ==
  IF x < 0 THEN (IF len + x < 0 THEN 0 ELSE len + x) ELSE (IF x > len THEN len ELSE x)

RECURSIVE SliceFrom(_, _, _, _, _)
SliceFrom(h, out, arr, i, final) ==
  IF i >= final THEN h
  ELSE SliceFrom(Push(h, out, GetProp(h, arr, IdxKey(i))), out, arr, i + 1, final)

\* arr.slice(start, end): a new array
Slice(h, arr, start, end) ==
  LET out == Alloc(h, ArrNode)
      len == ArrLength(h[arr.a])
  IN [h |-> SliceFrom(out.h, out.r, arr, Relative(start, len), Relative(end, len)),
      r |-> out.r]

\* the for loop of chunk, from index i on
RECURSIVE ChunkFrom(_, _, _, _, _)
ChunkFrom(h, chunks, arr, size, i) ==
  IF i >= ArrLength(h[arr.a]) THEN h
  ELSE LET part == Slice(h, arr, i, i + size)
       IN ChunkFrom(Push(part.h, chunks, part.r), chunks, arr, size, i + size)

\* a loop of chunk that stops before a chunk that would not be full
RECURSIVE ChunkFullFrom(_, _, _, _, _)
ChunkFullFrom(h, chunks, arr, size, i) ==
  IF i + size > ArrLength(h[arr.a]) THEN h
  ELSE LET part == Slice(h, arr, i, i + size)
       IN ChunkFullFrom(Push(part.h, chunks, part.r), chunks, arr, size, i + size)

\* a chunk that drops the elements left over after the last full chunk
chunkFullOnly(h, arr, size) ==
  IF ~IsArray(h, arr) \/ size.k # "num" \/ size.n <= 0 THEN [h |-> h, r |-> Thrown("TypeError")]
  ELSE LET chunks == Alloc(h, ArrNode)
       IN [h |-> ChunkFullFrom(chunks.h, chunks.r, arr, size.n, 0), r |-> chunks.r]

\* chunk(arr, size); a size of NaN passes the test `size <= 0`, then slice(0, NaN) is
\* empty and `i += size` ends the loop after one round
chunk(h, arr, size) ==
  IF ~IsArray(h, arr) THEN [h |-> h, r |-> Thrown("TypeError")]
  ELSE IF TypeOf(size) # "number" \/ (size.k = "num" /\ size.n <= 0)
  THEN [h |-> h, r |-> Thrown("TypeError")]
  ELSE LET chunks == Alloc(h, ArrNode)
       IN IF size.k = "num"
          THEN [h |-> ChunkFrom(chunks.h, chunks.r, arr, size.n, 0), r |-> chunks.r]
          ELSE IF ArrLength(h[arr.a]) = 0 THEN chunks
          ELSE LET part == Slice(chunks.h, arr, 0, 0)
               IN [h |-> Push(part.h, chunks.r, part.r), r |-> chunks.r]

\* a % b of JavaScript for b > 0: the sign of the result is the sign of a
Remainder(a, b) == IF a >= 0 THEN a % b ELSE -((-a) % b)

\* a rotate that moves the elements the other way
rotateBackwards(h, arr, positions) ==
  IF ~IsArray(h, arr) \/ ArrLength(h[arr.a]) = 0 THEN Alloc(h, ArrNode)
  ELSE LET len == ArrLength(h[arr.a])
           shift == IF positions.k = "nan" THEN 0
                    ELSE Remainder(Remainder(-positions.n, len) + len, len)
           tail == Slice(h, arr, shift, len)
           head == Slice(tail.h, arr, 0, shift)
           out == Alloc(head.h, ArrNode)
       IN [h |-> ConcatFrom(ConcatFrom(out.h, out.r, tail.r, 0), out.r, head.r, 0),
           r |-> out.r]

\* rotate(arr, positions), for positions a number; with NaN the shift is NaN, which
\* slice reads as 0
rotate(h, arr, positions) ==
  IF ~IsArray(h, arr) \/ ArrLength(h[arr.a]) = 0 THEN Alloc(h, ArrNode)
  ELSE LET len == ArrLength(h[arr.a])
           shift == IF positions.k = "nan" THEN 0
                    ELSE Remainder(Remainder(positions.n, len) + len, len)
           tail == Slice(h, arr, shift, len)
           head == Slice(tail.h, arr, 0, shift)
           out == Alloc(head.h, ArrNode)
       IN [h |-> ConcatFrom(ConcatFrom(out.h, out.r, tail.r, 0), out.r, head.r, 0),
           r |-> out.r]

(***************************************************************************)
(* String utilities: truncate (src/src/stringUtils.js)                     *)
(***************************************************************************)
\* str.slice(start, end), for a sequence of characters
StrSlice(s, start, end) ==
  SubSeq(s, Relative(start, Len(s)) + 1, Relative(end, Len(s)))

\* truncate(str, length, suffix = '...', addSuffix = true), for a suffix that is a
\* string when given; a length of NaN fails `str.length <= length` and slices to ''
truncate(str, length, suffix, addSuffix) ==
  IF TypeOf(str) # "string" \/ TypeOf(length) # "number" THEN Thrown("TypeError")
  ELSE LET suf == IF suffix = Undef THEN Str(<<".", ".", ".">>) ELSE suffix
           add == IF addSuffix = Undef THEN Bool(TRUE) ELSE addSuffix
       IN IF length.k = "num" /\ Len(str.s) <= length.n THEN str
          ELSE IF Truthy(add) /\ Truthy(suf)
          THEN Str(StrSlice(str.s, 0, IF length.k = "num" THEN length.n - Len(suf.s) ELSE 0)
                     \o suf.s)
          ELSE Str(StrSlice(str.s, 0, IF length.k = "num" THEN length.n ELSE 0))

(***************************************************************************)
(* The inputs of the model.                                                *)
(***************************************************************************)
Keys == {<<"a">>, <<"b">>}

Nums == {Num(n) : n \in 0..MaxNum}
Dates == {DateLit(n) : n \in 1..MaxNum}
Scalars == Nums \cup {NaN, Null, Undef, Str(<<"s">>)}
Leaves == Scalars \cup Dates

\* {} and the objects {k: v}
Objs1(K, V) == {ObjLit(<<>>, <<>>)} \cup {ObjLit(<<k>>, <<v>>) : k \in K, v \in V}
\* the objects {k1: v1, k2: v2}, in both insertion orders
Objs2(K, V) ==
  {ObjLit(<<k[1], k[2]>>, <<v[1], v[2]>>) : k \in {x \in K \X K : x[1] # x[2]}, v \in V \X V}
\* [] and the arrays [v]
Arrs1(V) == {ArrLit(<<>>)} \cup {ArrLit(<<v>>) : v \in V}
\* the arrays [v1, v2]
Arrs2(V) == {ArrLit(<<v[1], v[2]>>) : v \in V \X V}

\* what a two-entry container holds
Small == {Num(1), DateLit(1), ObjLit(<<<<"a">>>>, <<Num(1)>>), ArrLit(<<Num(1)>>)}

Level1 == Objs1(Keys, Leaves) \cup Arrs1(Leaves)
Level2 == Objs1(Keys, Level1) \cup Arrs1(Level1) \cup Objs2(Keys, Small) \cup Arrs2(Small)

\* the argument of a one-argument call
Singles == Leaves \cup Level1 \cup Level2

\* the arguments of a two-argument call
PLeaves == {Num(n) : n \in 1..MaxNum} \cup Dates
             \cup {Null, ArrLit(<<>>), ArrLit(<<Num(1)>>)}
PInner == PLeaves \cup Objs1(Keys, {Num(n) : n \in 1..MaxNum} \cup {DateLit(1)})
PSmall == {Num(1), Num(2), ObjLit(<<<<"a">>>>, <<Num(1)>>), ArrLit(<<Num(1)>>)}
PTop == Objs1(Keys, PInner) \cup Objs2(Keys, PSmall)
          \cup {ObjLit(<<<<"0">>>>, <<Num(1)>>)}
          \cup {Null, Undef, NaN, Num(1), ArrLit(<<Num(1)>>), DateLit(1), DateLit(2)}

\* the Sequences compared with one another
SeqItems == {Num(1), Num(2), DateLit(1), DateLit(2)}
SeqTop == Arrs1(SeqItems) \cup Arrs2(SeqItems)

\* objects whose keys are paths, integers or empty, in both insertion orders
FlatKeys ==
  {<<"a">>, <<"b">>, <<"a", ".", "b">>, <<"a", ".", "0">>, <<"0">>, <<"1">>,
   <<"0", ".", "a">>, <<>>}
FlatVals ==
  {Num(1), Num(2), DateLit(1), ObjLit(<<<<"b">>>>, <<Num(1)>>), ArrLit(<<Num(1)>>)}
FlatTop == Objs2(FlatKeys, FlatVals)

\* the arguments of getNestedValue and setNestedValue: a root, a path and a fallback
\* or a value to store
PathLeaves ==
  {Num(0), Num(1), Bool(FALSE), Bool(TRUE), Str(<<>>), Str(<<"s">>), Null, Undef, NaN,
   DateLit(1), ArrLit(<<>>), ArrLit(<<Num(1)>>), ObjLit(<<<<"b">>>>, <<Num(1)>>)}
PathInner == {Num(0), Num(1), Null, Str(<<"s">>), ArrLit(<<Num(1)>>)}
PathRoots ==
  {Null, Num(1)} \cup Objs1({<<"a">>}, PathLeaves)
    \cup {ObjLit(<<<<"a">>>>, <<ObjLit(<<k>>, <<v>>)>>) : k \in Keys, v \in PathInner}
Paths ==
  {Str(<<"a">>), Str(<<"b">>), Str(<<"a", ".", "a">>), Str(<<"a", ".", "b">>),
   Str(<<"b", ".", "a">>), Str(<<"a", ".", "0">>), Num(1)}
PathValues ==
  {Undef, Null, Num(0), Num(2), Bool(FALSE), Str(<<"s">>),
   ObjLit(<<<<"a">>>>, <<Num(2)>>), ArrLit(<<Num(2)>>)}

\* the arguments of chunk and rotate: an array and a number
ArrItems == {Num(1), Num(2)}
ArrList == {ArrLit(s) : s \in UNION {[1..n -> ArrItems] : n \in 0..MaxLen}}
Counts == {Num(n) : n \in (-MaxPos)..MaxPos} \cup {NaN}

\* the arguments of truncate: a string, a length, a suffix and the addSuffix flag
Strings == {Str(s) : s \in UNION {[1..n -> {"x", "y"}] : n \in 0..MaxStr}}
Lengths == {Num(n) : n \in 0..(MaxStr + 1)} \cup {Str(<<"2">>)}
Suffixes == {Undef, Str(<<>>), Str(<<".">>), Str(<<".", ".">>)}
Flags == {Undef, Bool(TRUE), Bool(FALSE)}

\* the arguments of range: start, end and the step, which may be left out
RangeArgs ==
  {Num(n) : n \in 0..MaxSpan} \X {Num(n) : n \in 0..MaxSpan}
    \X ({Undef} \cup {Num(n) : n \in (-1)..2})

\* the arguments of a three-argument deepMerge
MergeTop ==
  Objs1({<<"a">>}, {Num(1), Num(2), Null, DateLit(1), ArrLit(<<Num(1)>>),
                    ObjLit(<<<<"a">>>>, <<Num(1)>>), ObjLit(<<<<"b">>>>, <<Num(2)>>)})
    \cup {ObjLit(<<<<"b">>>>, <<Num(1)>>)}

Inputs ==
  {<<x>> : x \in Singles \cup FlatTop} \cup (PTop \X PTop) \cup (SeqTop \X SeqTop)
    \cup (PathRoots \X Paths \X PathValues) \cup (PathRoots \X Paths)
    \cup (MergeTop \X MergeTop \X MergeTop)
    \cup (ArrList \X Counts)
    \cup (Strings \X Lengths \X Suffixes \X Flags)
    \cup RangeArgs

\* the paths the caller writes through, and the value written
WritePaths == {<<"a">>, <<"0">>, <<"a", ".", "a">>, <<"a", ".", "0">>}
WriteValue == Str(<<"w">>)

(***************************************************************************)
(* The caller: it builds its arguments, calls one function of the library  *)
(* and then writes in place through the result or through an argument.     *)
(***************************************************************************)
Init ==
  \E lits \in Inputs :
    LET b == BuildAll(<<>>, lits, <<>>)
    IN /\ heap = b.h
       /\ args = b.r
       /\ call = "init"
       /\ res = Undef
       /\ wrote = <<>>
       /\ pre = b.h
       /\ literals = lits
       /\ loop = Undef

Returns(name, out) ==
  /\ heap' = out.h
  /\ res' = out.r
  /\ call' = name
  /\ pre' = heap
  /\ UNCHANGED <<args, wrote, literals, loop>>

CallDeepClone ==
  /\ call = "init" /\ Len(args) = 1
  /\ Returns("deepClone", deepClone(heap, args[1]))

CallDeepMerge ==
  /\ call = "init"
  /\ Returns("deepMerge", deepMerge(heap, args))

CallFlattenObject ==
  /\ call = "init" /\ Len(args) = 1
  /\ Returns("flattenObject", flattenObject(heap, args[1], <<>>))

CallIsEqual ==
  /\ call = "init" /\ Len(args) = 2
  /\ Returns("isEqual", [h |-> heap, r |-> Bool(isEqual(heap, args[1], args[2]))])

Roots == [i \in 1..Len(args) |-> args[i]] \o <<res>>

\* the caller's in-place write through root number i (the last one is the result)
Write ==
  /\ call \in {"deepClone", "deepMerge", "flattenObject"}
  /\ wrote = <<>>
  /\ \E i \in 1..Len(Roots), path \in WritePaths :
       /\ Roots[i].k = "ref"
       /\ heap' = setNestedValue(heap, Roots[i], Str(path), WriteValue).h
       /\ wrote' = <<i, path>>
       /\ pre' = heap
  /\ UNCHANGED <<args, call, res, literals, loop>>

CallGetNestedValue ==
  /\ call = "init" /\ Len(args) = 3
  /\ Returns("getNestedValue",
             [h |-> heap, r |-> getNestedValue(heap, args[1], args[2], args[3])])

CallSetNestedValue ==
  /\ call = "init" /\ Len(args) = 3
  /\ Returns("setNestedValue", setNestedValue(heap, args[1], args[2], args[3]))

\* getNestedValue(setNestedValue(root, path, v), path)
ThenGetNestedValue ==
  /\ call = "setNestedValue" /\ res.k # "throw"
  /\ Returns("setNestedValue;getNestedValue",
             [h |-> heap, r |-> getNestedValue(heap, res, args[2], Undef)])

\* a second setNestedValue through the reference the first one returned
ThenSetNestedValue ==
  /\ call = "setNestedValue" /\ res.k = "ref"
  /\ \E path \in WritePaths :
       LET out == setNestedValue(heap, res, Str(path), WriteValue)
       IN /\ heap' = out.h
          /\ res' = out.r
          /\ wrote' = <<Len(args) + 1, path>>
  /\ call' = "setNestedValue;setNestedValue"
  /\ pre' = heap
  /\ UNCHANGED <<args, literals, loop>>

CallHasPath ==
  /\ call = "init" /\ Len(args) = 2
  /\ Returns("hasPath", [h |-> heap, r |-> hasPath(heap, args[1], args[2])])

\* the caller names the property with a string
CallHas ==
  /\ call = "init" /\ Len(args) = 2 /\ args[2].k = "str"
  /\ Returns("has", [h |-> heap, r |-> has(heap, args[1], args[2])])

CallChunk ==
  /\ call = "init" /\ Len(args) = 2
  /\ Returns("chunk", chunk(heap, args[1], args[2]))

\* the caller gives the positions as a number
CallRotate ==
  /\ call = "init" /\ Len(args) = 2 /\ TypeOf(args[2]) = "number"
  /\ Returns("rotate", rotate(heap, args[1], args[2]))

\* rotate(rotate(arr, k), -k)
ThenRotateBack ==
  /\ call = "rotate" /\ args[2].k = "num"
  /\ Returns("rotate;rotate", rotate(heap, res, Num(-args[2].n)))

\* the caller gives the suffix, when it gives one, as a string
CallTruncate ==
  /\ call = "init" /\ Len(args) = 4 /\ args[3].k \in {"undef", "str"}
  /\ Returns("truncate", [h |-> heap, r |-> truncate(args[1], args[2], args[3], args[4])])

\* range(start, end, step = 1), one action per round of its loop.  The caller gives
\* the step, when it gives one, as a number.
RangeStepOf == IF args[3] = Undef THEN 1 ELSE args[3].n

\* how many elements the result of range can hold before the engine can grow it no
\* further (2^32 - 1 elements at most, less when memory runs out first): in the model,
\* more than any range with a positive step holds
RangeCap == MaxSpan + 2

\* the entry of range: the type test, `const result = []` and `let i = start`
CallRange ==
  /\ call = "init" /\ Len(args) = 3 /\ args[3].k \in {"undef", "num"}
  /\ IF TypeOf(args[1]) # "number" \/ TypeOf(args[2]) # "number"
     THEN /\ Returns("range", [h |-> heap, r |-> Thrown("TypeError")])
     ELSE LET result == Alloc(heap, ArrNode)
          IN /\ heap' = result.h
             /\ res' = result.r
             /\ call' = "range:loop"
             /\ loop' = args[1]
             /\ pre' = heap
             /\ UNCHANGED <<args, wrote, literals>>

\* `i <= end`, false when either side is NaN
RangeGoesOn == loop.k = "num" /\ args[2].k = "num" /\ loop.n <= args[2].n

\* one round: result.push(i); i += step
RangeRound ==
  /\ call = "range:loop" /\ RangeGoesOn
  /\ ArrLength(heap[res.a]) < RangeCap
  /\ heap' = Push(heap, res, loop)
  /\ loop' = Num(loop.n + RangeStepOf)
  /\ UNCHANGED <<args, call, res, wrote, pre, literals>>

\* the loop test fails: return result
RangeReturn ==
  /\ call = "range:loop" /\ ~RangeGoesOn
  /\ call' = "range"
  /\ loop' = Undef
  /\ UNCHANGED <<heap, args, res, wrote, pre, literals>>

\* the loop goes on but the result cannot grow any more: result.push(i) throws a
\* RangeError out of range, or the process runs out of memory and is aborted,
\* whichever limit the engine meets first
RangeExhausted ==
  /\ call = "range:loop" /\ RangeGoesOn
  /\ ArrLength(heap[res.a]) >= RangeCap
  /\ \E outcome \in {"throws", "aborts"} :
       /\ call' = IF outcome = "throws" THEN "range" ELSE "range:aborted"
       /\ res' = IF outcome = "throws" THEN Thrown("RangeError") ELSE res
  /\ loop' = Undef
  /\ UNCHANGED <<heap, args, wrote, pre, literals>>

CallGetAllKeys ==
  /\ call = "init" /\ Len(args) = 1
  /\ Returns("getAllKeys", getAllKeys(heap, args[1], <<>>))

CallUnflattenObject ==
  /\ call = "init" /\ Len(args) = 1
  /\ Returns("unflattenObject", unflattenObject(heap, args[1]))

\* unflattenObject(flattenObject(m))
ThenUnflattenObject ==
  /\ call = "flattenObject" /\ wrote = <<>>
  /\ Returns("flattenObject;unflattenObject", unflattenObject(heap, res))

Next ==
  \/ CallDeepClone \/ CallDeepMerge \/ CallFlattenObject \/ CallIsEqual \/ Write
  \/ CallGetNestedValue \/ CallSetNestedValue \/ ThenGetNestedValue \/ ThenSetNestedValue
  \/ CallGetAllKeys \/ CallUnflattenObject \/ ThenUnflattenObject
  \/ CallHasPath \/ CallHas
  \/ CallChunk \/ CallRotate \/ ThenRotateBack
  \/ CallTruncate
  \/ CallRange \/ RangeRound \/ RangeReturn \/ RangeExhausted

Spec == Init /\ [][Next]_vars

\* a call of range that has been entered keeps running: its loop takes its next round,
\* returns, or fails for want of room, whenever it can
LiveSpec ==
  Spec /\ WF_vars(RangeRound) /\ WF_vars(RangeReturn) /\ WF_vars(RangeExhausted)

(***************************************************************************)
(* What the properties are stated with.                                    *)
(***************************************************************************)
KeySet(node) == {node.keys[i] : i \in 1..Len(node.keys)}

\* the structure a value denotes in a heap: a primitive is itself, an object is its
\* kind, its timestamp and its properties by key (without their insertion order)
RECURSIVE Abs(_, _)
Abs(h, v) ==
  IF v.k # "ref" THEN v
  ELSE [k |-> "node", t |-> h[v.a].t, time |-> h[v.a].time,
        props |-> [key \in KeySet(h[v.a]) |-> Abs(h, GetProp(h, v, key))]]

\* the addresses of the objects reachable from a value
RECURSIVE Reach(_, _)
Reach(h, v) ==
  IF v.k # "ref" THEN {}
  ELSE {v.a} \cup UNION {Reach(h, h[v.a].vals[i]) : i \in 1..Len(h[v.a].vals)}

\* the Mappings and Sequences reachable from a value
Containers(h, v) == {a \in Reach(h, v) : h[a].t \in {"obj", "arr"}}

IsMapping(h, v) == v.k = "ref" /\ h[v.a].t = "obj"
IsSequence(h, v) == v.k = "ref" /\ h[v.a].t = "arr"

\* scalar, Sequence or Mapping
Kind(h, v) ==
  IF IsMapping(h, v) THEN "mapping" ELSE IF IsSequence(h, v) THEN "sequence" ELSE "scalar"

TreeIsMapping(t) == t.k = "node" /\ t.t = "obj"
TreeIsScalar(t) == t.k # "node" \/ t.t = "date"

\* the root the caller wrote through: 0 for none, Len(args) + 1 for the result
WroteRoot == IF wrote = <<>> THEN 0 ELSE wrote[1]
ResRoot == Len(args) + 1

Returned(name) == call = name /\ wrote = <<>>

(***************************************************************************)
(* C1: the clone of a value is equal to the value, by the library's own    *)
(* isEqual.                                                                *)
(***************************************************************************)
C1_CloneIsEqual == Returned("deepClone") => isEqual(heap, res, args[1])

(***************************************************************************)
(* C2: a clone shares no Mapping or Sequence with its original; a write    *)
(* through the clone leaves the original as it was, and a write through    *)
(* the original leaves the clone as it was.                                *)
(***************************************************************************)
C2_CloneSharesNothing ==
  call = "deepClone" =>
    /\ Containers(heap, res) \cap Containers(heap, args[1]) = {}
    /\ WroteRoot = ResRoot => Abs(heap, args[1]) = Abs(pre, args[1])
    /\ WroteRoot = 1 => Abs(heap, res) = Abs(pre, res)

\* a nested original was cloned and the caller has changed a nested Mapping of the clone
C2_Witness ==
  /\ call = "deepClone"
  /\ WroteRoot = ResRoot
  /\ wrote[2] = <<"a", ".", "a">>
  /\ IsMapping(pre, GetProp(pre, res, <<"a">>))
  /\ IsMapping(pre, GetProp(pre, args[1], <<"a">>))
  /\ Abs(heap, res) # Abs(pre, res)

(***************************************************************************)
(* C3: deepMerge(a, b) of two Mappings: a key of a alone has a's value, a  *)
(* key of b alone has b's value, a key that holds a Mapping in both holds  *)
(* their merge, and b's scalar wins where both hold a scalar.              *)
(***************************************************************************)
RECURSIVE MergedAsClaimed(_, _, _)
MergedAsClaimed(ta, tb, tr) ==
  /\ TreeIsMapping(tr)
  /\ DOMAIN tr.props = DOMAIN ta.props \cup DOMAIN tb.props
  /\ \A key \in DOMAIN tr.props :
       IF key \notin DOMAIN tb.props THEN tr.props[key] = ta.props[key]
       ELSE IF key \notin DOMAIN ta.props THEN tr.props[key] = tb.props[key]
       ELSE IF TreeIsMapping(ta.props[key]) /\ TreeIsMapping(tb.props[key])
         THEN MergedAsClaimed(ta.props[key], tb.props[key], tr.props[key])
       ELSE IF TreeIsScalar(ta.props[key]) /\ TreeIsScalar(tb.props[key])
         THEN tr.props[key] = tb.props[key]
       ELSE TRUE

C3_MergeOfTwo ==
  (Returned("deepMerge") /\ Len(args) = 2
     /\ IsMapping(pre, args[1]) /\ IsMapping(pre, args[2]))
  => MergedAsClaimed(Abs(pre, args[1]), Abs(pre, args[2]), Abs(heap, res))

(***************************************************************************)
(* C4: in deepMerge, an incoming value that is not a Mapping is the result *)
(* at its key, whatever was accumulated there.                             *)
(***************************************************************************)
LastArg == args[Len(args)]

C4_NonMappingReplaces ==
  (Returned("deepMerge") /\ IsMapping(pre, LastArg)) =>
    \A key \in KeySet(pre[LastArg.a]) :
      ~IsMapping(pre, GetProp(pre, LastArg, key)) =>
        Abs(heap, GetProp(heap, res, key)) = Abs(pre, GetProp(pre, LastArg, key))

(***************************************************************************)
(* C5: in deepMerge, an incoming Mapping replaces an accumulated value     *)
(* that is not a Mapping: the result at that key has the incoming          *)
(* Mapping's keys and no others.                                           *)
(***************************************************************************)
C5_MappingReplacesNonMapping ==
  (Returned("deepMerge") /\ Len(args) = 2
     /\ IsMapping(pre, args[1]) /\ IsMapping(pre, args[2])) =>
    \A key \in KeySet(pre[args[1].a]) \cap KeySet(pre[args[2].a]) :
      (/\ IsMapping(pre, GetProp(pre, args[2], key))
       /\ ~IsMapping(pre, GetProp(pre, args[1], key))) =>
        /\ IsMapping(heap, GetProp(heap, res, key))
        /\ KeySet(heap[GetProp(heap, res, key).a])
             = KeySet(pre[GetProp(pre, args[2], key).a])

(***************************************************************************)
(* C6: an argument of deepMerge that is not a Mapping contributes nothing: *)
(* the result is the merge of the Mapping arguments alone.                 *)
(***************************************************************************)
MappingArgs == SelectSeq(args, LAMBDA v : IsMapping(pre, v))

C6_NonMappingArgsSkipped ==
  Returned("deepMerge") =>
    LET m == deepMerge(pre, MappingArgs)
    IN Abs(heap, res) = Abs(m.h, m.r)

(***************************************************************************)
(* C7: deepMerge leaves every argument, and everything nested in it, as it *)
(* was.                                                                    *)
(***************************************************************************)
C7_MergeMutatesNoArgument ==
  Returned("deepMerge") =>
    /\ \A i \in 1..Len(args) : Abs(heap, args[i]) = Abs(pre, args[i])
    /\ SubSeq(heap, 1, Len(pre)) = pre

\* two Mappings with a Mapping under the same key were merged into the union
C7_Witness ==
  /\ Returned("deepMerge") /\ Len(args) = 2
  /\ IsMapping(pre, GetProp(pre, args[1], <<"a">>))
  /\ IsMapping(pre, GetProp(pre, args[2], <<"a">>))
  /\ KeySet(heap[GetProp(heap, res, <<"a">>).a]) = {<<"a">>, <<"b">>}

(***************************************************************************)
(* C8: what deepMerge and flattenObject return shares no Mapping or        *)
(* Sequence with an argument, so a write through the result changes no     *)
(* argument.                                                               *)
(***************************************************************************)
C8_ResultIsFresh ==
  call \in {"deepMerge", "flattenObject"} =>
    /\ wrote = <<>> =>
         \A i \in 1..Len(args) : Containers(heap, res) \cap Containers(heap, args[i]) = {}
    /\ WroteRoot = ResRoot =>
         \A i \in 1..Len(args) : Abs(heap, args[i]) = Abs(pre, args[i])

(***************************************************************************)
(* C9: isEqual is false for two values of different kinds among scalar,    *)
(* Sequence and Mapping.                                                   *)
(***************************************************************************)
C9_KindsDiffer ==
  (Returned("isEqual") /\ Kind(heap, args[1]) # Kind(heap, args[2])) => res = Bool(FALSE)

(***************************************************************************)
(* C10: two Mappings are isEqual exactly when they have the same keys and  *)
(* isEqual values at every key, and then their scalar leaves are the same  *)
(* values.                                                                 *)
(***************************************************************************)
RECURSIVE LeavesAgree(_, _)
LeavesAgree(ta, tb) ==
  \A key \in DOMAIN ta.props \cap DOMAIN tb.props :
    IF TreeIsMapping(ta.props[key]) /\ TreeIsMapping(tb.props[key])
    THEN LeavesAgree(ta.props[key], tb.props[key])
    ELSE (TreeIsScalar(ta.props[key]) /\ TreeIsScalar(tb.props[key]))
           => ta.props[key] = tb.props[key]

C10_MappingEquality ==
  (Returned("isEqual") /\ IsMapping(heap, args[1]) /\ IsMapping(heap, args[2])) =>
    /\ res.b <=>
         /\ KeySet(heap[args[1].a]) = KeySet(heap[args[2].a])
         /\ \A key \in KeySet(heap[args[1].a]) :
              isEqual(heap, GetProp(heap, args[1], key), GetProp(heap, args[2], key))
    /\ res.b => LeavesAgree(Abs(heap, args[1]), Abs(heap, args[2]))

(***************************************************************************)
(* C11: two Sequences are isEqual exactly when they have the same length   *)
(* and isEqual elements at every index, and a Sequence of distinct         *)
(* elements is not isEqual to a different ordering of them.                *)
(***************************************************************************)
Items(h, s) == [i \in 1..ArrLength(h[s.a]) |-> Abs(h, GetProp(h, s, IdxKey(i - 1)))]

ElementsEqual(h, s, t) ==
  /\ ArrLength(h[s.a]) = ArrLength(h[t.a])
  /\ \A i \in 0..(ArrLength(h[s.a]) - 1) :
       isEqual(h, GetProp(h, s, IdxKey(i)), GetProp(h, t, IdxKey(i)))

\* t holds the elements of s, all distinct, in another order
Reordered(h, s, t) ==
  LET x == Items(h, s)
      y == Items(h, t)
  IN /\ Len(x) = Len(y)
     /\ \A i, j \in 1..Len(x) : i # j => x[i] # x[j]
     /\ {x[i] : i \in 1..Len(x)} = {y[i] : i \in 1..Len(y)}
     /\ x # y

C11_SequenceEquality ==
  (Returned("isEqual") /\ IsSequence(heap, args[1]) /\ IsSequence(heap, args[2])) =>
    /\ res = Bool(ElementsEqual(heap, args[1], args[2]))
    /\ Reordered(heap, args[1], args[2]) => res = Bool(FALSE)

(***************************************************************************)
(* C12: getNestedValue returns the value at the end of the path whenever   *)
(* every component is a key of the Mapping reached so far and holds a      *)
(* value other than null and undefined, whatever that value is.            *)
(***************************************************************************)
\* the walk as specified from keys[i] on: ok tells whether every step so far found a
\* key of a Mapping with a value other than null and undefined, v is where it got to
RECURSIVE Walk(_, _, _, _)
Walk(h, v, keys, i) ==
  IF i > Len(keys) THEN [ok |-> TRUE, v |-> v]
  ELSE IF /\ IsMapping(h, v)
          /\ KeyPos(h[v.a], keys[i]) # 0
          /\ GetProp(h, v, keys[i]).k \notin {"null", "undef"}
       THEN Walk(h, GetProp(h, v, keys[i]), keys, i + 1)
       ELSE [ok |-> FALSE, v |-> v]

\* the caller has called getNestedValue with a string as the path
GotByPath == Returned("getNestedValue") /\ args[2].k = "str"

C12_FoundValueReturned ==
  (GotByPath /\ Walk(heap, args[1], Split(args[2].s), 1).ok) =>
    res = Walk(heap, args[1], Split(args[2].s), 1).v

(***************************************************************************)
(* C13: when the walk of getNestedValue fails at a component, the result   *)
(* is the fallback argument itself, whatever the fallback is and whatever  *)
(* components remain.                                                      *)
(***************************************************************************)
C13_FailedWalkGivesFallback ==
  (GotByPath /\ ~Walk(heap, args[1], Split(args[2].s), 1).ok) => res = args[3]

(***************************************************************************)
(* C14: reading a path of a Mapping root with getNestedValue just after    *)
(* setNestedValue stored v there returns v.                                *)
(***************************************************************************)
C14_GetAfterSet ==
  (call = "setNestedValue;getNestedValue" /\ IsMapping(heap, args[1]) /\ args[2].k = "str") =>
    res = args[3]

(***************************************************************************)
(* C15: setNestedValue on a Mapping root returns the root it was given,    *)
(* not a copy, and the stored value is read at the path through the        *)
(* caller's own reference to the root; a further setNestedValue through    *)
(* the returned reference returns that same root again.                    *)
(***************************************************************************)
\* v[keys[i]][keys[i + 1]]..., undefined where a step has nothing to read
RECURSIVE ReadPath(_, _, _, _)
ReadPath(h, v, keys, i) ==
  IF i > Len(keys) THEN v
  ELSE IF v.k \in {"null", "undef"} THEN Undef
  ELSE ReadPath(h, GetProp(h, v, keys[i]), keys, i + 1)

C15_ReturnsSameRoot ==
  /\ (call = "setNestedValue" /\ IsMapping(heap, args[1])) =>
       /\ res = args[1]
       /\ args[2].k = "str" => ReadPath(heap, args[1], Split(args[2].s), 1) = args[3]
  /\ (call = "setNestedValue;setNestedValue" /\ IsMapping(heap, args[1])) =>
       /\ res = args[1]
       /\ ReadPath(heap, args[1], Split(wrote[2]), 1) = WriteValue

C15_Witness ==
  /\ call = "setNestedValue;setNestedValue"
  /\ IsMapping(heap, args[1])
  /\ args[2] = Str(<<"a", ".", "b">>)
  /\ wrote[2] = <<"a", ".", "a">>
  /\ res = args[1]
  /\ ReadPath(heap, args[1], <<<<"a">>, <<"b">>>>, 1) = args[3]
  /\ ReadPath(heap, args[1], <<<<"a">>, <<"a">>>>, 1) = WriteValue

(***************************************************************************)
(* C16: setNestedValue on a Mapping root descends into the Mapping found   *)
(* at each non-terminal component, puts a fresh empty Mapping there first  *)
(* when the key is missing or holds anything else (a scalar, null or a     *)
(* Sequence), and assigns the value at the terminal key.                   *)
(***************************************************************************)
EmptyMapping == [k |-> "node", t |-> "obj", time |-> 0, props |-> <<>>]

\* the Mapping the specified walk leaves, from keys[i] on, as a structure
RECURSIVE SetAsSpecified(_, _, _, _)
SetAsSpecified(tree, keys, i, value) ==
  IF i = Len(keys) THEN [tree EXCEPT !.props = (keys[i] :> value) @@ tree.props]
  ELSE LET below == IF keys[i] \in DOMAIN tree.props /\ TreeIsMapping(tree.props[keys[i]])
                    THEN tree.props[keys[i]]
                    ELSE EmptyMapping
       IN [tree EXCEPT !.props = (keys[i] :> SetAsSpecified(below, keys, i + 1, value))
                                   @@ tree.props]

C16_CreatesMappingsOnTheWay ==
  (call = "setNestedValue" /\ IsMapping(heap, args[1]) /\ args[2].k = "str") =>
    Abs(heap, args[1]) =
      SetAsSpecified(Abs(pre, args[1]), Split(args[2].s), 1, Abs(pre, args[3]))

(***************************************************************************)
(* C17: for a Mapping root whose keys hold no '.', flattenObject has       *)
(* exactly one entry per leaf (a value reached through Mappings only that  *)
(* is not a Mapping: a scalar, null, a date or a Sequence), under the keys *)
(* on the way joined with '.', holding the leaf; distinct leaves get       *)
(* distinct keys.                                                          *)
(***************************************************************************)
\* components joined with '.'
RECURSIVE JoinDots(_)
JoinDots(comps) ==
  IF Len(comps) = 1 THEN comps[1] ELSE comps[1] \o <<".">> \o JoinDots(Tail(comps))

\* the leaves of a Mapping, each with the keys on the way to it
RECURSIVE LeavesOf(_, _)
LeavesOf(tree, way) ==
  UNION {IF TreeIsMapping(tree.props[key])
         THEN LeavesOf(tree.props[key], Append(way, key))
         ELSE {[way |-> Append(way, key), leaf |-> tree.props[key]]} :
         key \in DOMAIN tree.props}

\* no key of the Mapping, at any depth, holds a '.'
RECURSIVE DotFree(_)
DotFree(tree) ==
  TreeIsMapping(tree) =>
    \A key \in DOMAIN tree.props :
      /\ \A i \in 1..Len(key) : key[i] # "."
      /\ DotFree(tree.props[key])

C17_OneEntryPerLeaf ==
  (Returned("flattenObject") /\ IsMapping(pre, args[1]) /\ DotFree(Abs(pre, args[1]))) =>
    LET leaves == LeavesOf(Abs(pre, args[1]), <<>>)
        flat == Abs(heap, res).props
    IN /\ \A x, y \in leaves : x.way # y.way => JoinDots(x.way) # JoinDots(y.way)
       /\ DOMAIN flat = {JoinDots(x.way) : x \in leaves}
       /\ \A x \in leaves : flat[JoinDots(x.way)] = x.leaf

(***************************************************************************)
(* C18: for a Mapping built only from Mappings and scalars, with keys that *)
(* hold no '.', unflattenObject of its flattenObject is isEqual to it,     *)
(* empty Mappings at nested positions included.                            *)
(***************************************************************************)
NoSequences(h, v) == \A a \in Reach(h, v) : h[a].t # "arr"

C18_FlattenRoundTrip ==
  (/\ call = "flattenObject;unflattenObject"
   /\ IsMapping(heap, args[1])
   /\ NoSequences(heap, args[1])
   /\ DotFree(Abs(heap, args[1]))) =>
    isEqual(heap, res, args[1])

(***************************************************************************)
(* C19: for a Mapping root, getAllKeys lists exactly the keys of           *)
(* flattenObject of the root, in the same order, which is the pre-order of *)
(* the traversal (what is below a key comes before the key's later         *)
(* siblings), and lists no path twice.                                     *)
(***************************************************************************)
\* the strings of an array of strings, in order
Listed(h, arr) == [i \in 1..ArrLength(h[arr.a]) |-> GetProp(h, arr, IdxKey(i - 1)).s]

\* the joined paths of the values below v that are not Mappings, in pre-order
RECURSIVE PreOrder(_, _, _, _)
PreOrder(h, v, way, i) ==
  IF i > Len(h[v.a].keys) THEN <<>>
  ELSE LET below == h[v.a].vals[i]
           here == Append(way, h[v.a].keys[i])
       IN (IF IsMapping(h, below) THEN PreOrder(h, below, here, 1) ELSE <<JoinDots(here)>>)
            \o PreOrder(h, v, way, i + 1)

SameAsFlattened ==
  LET listed == Listed(heap, res)
      flat == flattenObject(pre, args[1], <<>>)
      flatKeys == ObjectKeys(flat.h, flat.r)
  IN /\ listed = flatKeys
     /\ \A i, j \in 1..Len(listed) : i # j => listed[i] # listed[j]
     /\ listed = SelectSeq(PreOrder(pre, args[1], <<>>, 1), LAMBDA p : Includes(flatKeys, p))

C19_AllKeysAreFlattenKeys ==
  (Returned("getAllKeys") /\ IsMapping(pre, args[1])) => SameAsFlattened

(***************************************************************************)
(* C20: unflattenObject(flat) is what setNestedValue leaves in an empty    *)
(* root when it is applied once per key of flat, in the order the keys     *)
(* were inserted, so the later of two colliding keys wins: where p comes   *)
(* before p.q and flat[p] is a scalar the result holds at p a Mapping with *)
(* the key q, and where p.q comes before p the result holds flat[p] at p.  *)
(***************************************************************************)
\* setNestedValue(root, key, flat[key]) for the keys of order from the i-th on
RECURSIVE SetEach(_, _, _, _, _)
SetEach(h, root, flat, order, i) ==
  IF i > Len(order) THEN h
  ELSE SetEach(setNestedValue(h, root, Str(order[i]), GetProp(h, flat, order[i])).h,
               root, flat, order, i + 1)

FoldOfSets(h, flat, order) ==
  LET root == Alloc(h, ObjNode)
  IN Abs(SetEach(root.h, root.r, flat, order, 1), root.r)

Position(order, key) == CHOOSE i \in 1..Len(order) : order[i] = key

\* pq is p, a '.', and one more component
Extends(pq, p) ==
  /\ Len(Split(p)) = 1
  /\ Len(Split(pq)) = 2
  /\ Split(pq)[1] = p

LaterKeyWins(h, flat, order, result) ==
  \A p, pq \in KeySet(h[flat.a]) :
    Extends(pq, p) =>
      /\ (Position(order, p) < Position(order, pq) /\ Kind(h, GetProp(h, flat, p)) = "scalar") =>
           /\ TreeIsMapping(result.props[p])
           /\ Split(pq)[2] \in DOMAIN result.props[p].props
      /\ Position(order, pq) < Position(order, p) =>
           result.props[p] = Abs(h, GetProp(h, flat, p))

C20_UnflattenInInsertionOrder ==
  (Returned("unflattenObject") /\ IsMapping(pre, args[1])) =>
    /\ Abs(heap, res) = FoldOfSets(pre, args[1], literals[1].keys)
    /\ LaterKeyWins(pre, args[1], literals[1].keys, Abs(heap, res))

(***************************************************************************)
(* C21: flattenObject, getAllKeys and unflattenObject return an empty      *)
(* result (an empty Mapping, an empty Sequence for getAllKeys) and raise   *)
(* nothing when their argument is not a Mapping: null, undefined, a scalar *)
(* or a Sequence.                                                          *)
(***************************************************************************)
C21_EmptyForNonMapping ==
  (/\ Returned("flattenObject") \/ Returned("getAllKeys") \/ Returned("unflattenObject")
   /\ ~IsMapping(pre, args[1])) =>
    /\ res.k = "ref"
    /\ heap[res.a].t = (IF call = "getAllKeys" THEN "arr" ELSE "obj")
    /\ heap[res.a].keys = <<>>

(***************************************************************************)
(* C22: deepMerge folds its arguments left to right: for Mappings a, b and *)
(* c, deepMerge(a, b, c) has the structure of deepMerge(deepMerge(a, b),   *)
(* c), and deepMerge(a) and deepMerge(a, a) have the structure of a.       *)
(***************************************************************************)
\* the structure of deepMerge(objects)
MergedTree(h, objects) == Abs(deepMerge(h, objects).h, deepMerge(h, objects).r)

C22_MergeIsAFold ==
  (Returned("deepMerge") /\ \A i \in 1..Len(args) : IsMapping(pre, args[i])) =>
    /\ Len(args) = 3 =>
         LET ab == deepMerge(pre, <<args[1], args[2]>>)
         IN Abs(heap, res) = MergedTree(ab.h, <<ab.r, args[3]>>)
    /\ Len(args) = 1 =>
         /\ Abs(heap, res) = Abs(pre, args[1])
         /\ MergedTree(pre, <<args[1], args[1]>>) = Abs(pre, args[1])

(***************************************************************************)
(* C23: hasPath(obj, path) on a Mapping is true exactly when every         *)
(* component of the path is a key of the Mapping reached so far, whatever  *)
(* is stored at the end (0, false, the empty string and null included), so *)
(* for a path of one component it agrees with has.                         *)
(***************************************************************************)
\* every component from keys[i] on is a key of the Mapping reached so far
RECURSIVE PathExists(_, _, _, _)
PathExists(h, v, keys, i) ==
  IF i > Len(keys) THEN TRUE
  ELSE /\ IsMapping(h, v)
       /\ KeyPos(h[v.a], keys[i]) # 0
       /\ PathExists(h, GetProp(h, v, keys[i]), keys, i + 1)

C23_HasPathIffExists ==
  (Returned("hasPath") /\ IsMapping(heap, args[1]) /\ args[2].k = "str") =>
    /\ res = Bool(PathExists(heap, args[1], Split(args[2].s), 1))
    /\ Len(Split(args[2].s)) = 1 => res = has(heap, args[1], args[2])

(***************************************************************************)
(* C24: for an array and a positive integer size, the chunks of chunk      *)
(* joined in order are the array, every chunk but the last has size        *)
(* elements, the last has between 1 and size, an empty array gives no      *)
(* chunk, and the array is left as it was.                                 *)
(***************************************************************************)
\* the chunks of an array of arrays, each as the sequence of its elements
Parts(h, chunks) ==
  [i \in 1..ArrLength(h[chunks.a]) |-> Items(h, GetProp(h, chunks, IdxKey(i - 1)))]

RECURSIVE ConcatAll(_)
ConcatAll(parts) == IF parts = <<>> THEN <<>> ELSE Head(parts) \o ConcatAll(Tail(parts))

ChunkedRight(parts, items, size) ==
  /\ ConcatAll(parts) = items
  /\ \A i \in 1..(Len(parts) - 1) : Len(parts[i]) = size
  /\ parts # <<>> => Len(parts[Len(parts)]) \in 1..size
  /\ items = <<>> => parts = <<>>

C24_ChunkPartitions ==
  (Returned("chunk") /\ IsArray(pre, args[1]) /\ args[2].k = "num" /\ args[2].n > 0) =>
    /\ IsArray(heap, res)
    /\ ChunkedRight(Parts(heap, res), Items(pre, args[1]), args[2].n)
    /\ Abs(heap, args[1]) = Abs(pre, args[1])

C24_Witness ==
  /\ Returned("chunk")
  /\ IsArray(pre, args[1])
  /\ args[2] = Num(2)
  /\ IsArray(heap, res)
  /\ Parts(heap, res) = <<<<Num(1), Num(2)>>, <<Num(1)>>>>

(***************************************************************************)
(* C25: for a non-empty array of length n and any integer positions,       *)
(* rotate gives an array of length n whose element i is element            *)
(* (i + positions) mod n of the array; rotating back by -positions gives   *)
(* the array again, rotating by positions + n gives the same result, and   *)
(* the array is left as it was.                                            *)
(***************************************************************************)
Rotated(items, k) ==
  [i \in 1..Len(items) |-> items[(((i - 1) + k) % Len(items)) + 1]]

NonEmptyRotation == IsArray(pre, args[1]) /\ ArrLength(pre[args[1].a]) > 0 /\ args[2].k = "num"

C25_RotateByPositions ==
  /\ (Returned("rotate") /\ NonEmptyRotation) =>
       /\ IsArray(heap, res)
       /\ Items(heap, res) = Rotated(Items(pre, args[1]), args[2].n)
       /\ LET more == rotate(pre, args[1], Num(args[2].n + ArrLength(pre[args[1].a])))
          IN Items(more.h, more.r) = Items(heap, res)
       /\ Abs(heap, args[1]) = Abs(pre, args[1])
  /\ (Returned("rotate;rotate") /\ IsArray(heap, args[1]) /\ ArrLength(heap[args[1].a]) > 0) =>
       /\ Items(heap, res) = Items(heap, args[1])
       /\ Abs(heap, args[1]) = Abs(pre, args[1])

C25_Witness ==
  /\ Returned("rotate;rotate")
  /\ args[2] = Num(-MaxPos)
  /\ Items(heap, args[1]) = <<Num(1), Num(2), Num(2)>>
  /\ Items(heap, res) = <<Num(1), Num(2), Num(2)>>

(***************************************************************************)
(* C26: for a string, a non-negative integer length, a suffix and the      *)
(* addSuffix flag, truncate returns a string of at most length characters, *)
(* and the string itself when it has at most length characters.            *)
(***************************************************************************)
C26_AtMostLength ==
  (Returned("truncate") /\ args[1].k = "str" /\ args[2].k = "num" /\ args[2].n >= 0) =>
    /\ res.k = "str"
    /\ Len(res.s) <= args[2].n
    /\ Len(args[1].s) <= args[2].n => res = args[1]

(***************************************************************************)
(* C27: unflattenObject leaves its argument, and every Sequence or Mapping *)
(* stored in it, as it was, whatever the order of the keys.                *)
(***************************************************************************)
C27_UnflattenMutatesNothing ==
  (Returned("unflattenObject") /\ IsMapping(pre, args[1])) =>
    Abs(heap, args[1]) = Abs(pre, args[1])

(***************************************************************************)
(* C28: setNestedValue changes nothing off the path: in the root and in    *)
(* every existing Mapping it descends into, each key other than the path   *)
(* component taken there keeps its value; and with a root that is null or  *)
(* undefined, or a path that is not a string, the root is returned and     *)
(* nothing changes.                                                        *)
(***************************************************************************)
\* from the Mapping v on, the keys off the path hold in h1 what they held in h0
RECURSIVE OffPathKept(_, _, _, _, _)
OffPathKept(h0, h1, v, keys, i) ==
  /\ \A key \in KeySet(h0[v.a]) \ {keys[i]} :
       /\ GetProp(h1, v, key) = GetProp(h0, v, key)
       /\ Abs(h1, GetProp(h1, v, key)) = Abs(h0, GetProp(h0, v, key))
  /\ (i < Len(keys) /\ IsMapping(h0, GetProp(h0, v, keys[i]))) =>
       /\ GetProp(h1, v, keys[i]) = GetProp(h0, v, keys[i])
       /\ OffPathKept(h0, h1, GetProp(h0, v, keys[i]), keys, i + 1)

C28_NothingOffThePath ==
  (call = "setNestedValue" /\ Len(args) = 3) =>
    /\ (IsMapping(pre, args[1]) /\ args[2].k = "str") =>
         OffPathKept(pre, heap, args[1], Split(args[2].s), 1)
    /\ (args[1].k \in {"null", "undef"} \/ TypeOf(args[2]) # "string") =>
         res = args[1] /\ heap = pre

C28_Witness ==
  /\ call = "setNestedValue"
  /\ args[2] = Str(<<"a", ".", "a">>)
  /\ args[3] = Num(2)
  /\ ReadPath(pre, args[1], <<<<"a">>, <<"b">>>>, 1) = Num(1)
  /\ ReadPath(heap, args[1], <<<<"a">>, <<"b">>>>, 1) = Num(1)
  /\ ReadPath(heap, args[1], <<<<"a">>, <<"a">>>>, 1) = Num(2)

(***************************************************************************)
(* C29: isEqual is an equivalence relation on Plain Values: isEqual(a, a)  *)
(* is true, isEqual(a, b) is isEqual(b, a), and isEqual(a, b) with         *)
(* isEqual(b, c) gives isEqual(a, c).                                      *)
(***************************************************************************)
C29_IsEqualIsEquivalence ==
  /\ Returned("isEqual") =>
       /\ \A i \in 1..2 : isEqual(heap, args[i], args[i])
       /\ res = Bool(isEqual(heap, args[2], args[1]))
  /\ (/\ call = "init" /\ Len(args) = 3
      /\ isEqual(heap, args[1], args[2])
      /\ isEqual(heap, args[2], args[3])) =>
       isEqual(heap, args[1], args[3])

(***************************************************************************)
(* C30: a call of range returns, for all integer start, end and step, and  *)
(* what it returns is start, start + step, start + 2 * step, ... as far as *)
(* these are at most end, in that order (nothing when start is greater     *)
(* than end).                                                              *)
(***************************************************************************)
\* start, start + step, ... while at most end, for a positive step
RECURSIVE Progression(_, _, _)
Progression(from, end, step) ==
  IF from > end THEN <<>> ELSE <<Num(from)>> \o Progression(from + step, end, step)

RangeReturnsProgression ==
  (call = "range" /\ res.k = "ref") =>
    Items(heap, res) = Progression(args[1].n, args[2].n, RangeStepOf)

C30_RangeTerminates ==
  /\ (call = "range:loop") ~> (call = "range" /\ res.k = "ref")
  /\ []RangeReturnsProgression

====
